---- MODULE Spec2Model ----
(***************************************************************************)
(* A model of explain_lines.py (src/__init__.py): the instrumented         *)
(* executor run_with_trace, the merge loop of explain_file, and the        *)
(* rendering stage call_local_llm / explain_with_llm.                      *)
(*                                                                         *)
(* Strings are modelled as sequences of tokens.  A token is either one     *)
(* character or one marker text that the code searches for; the alphabets  *)
(* are chosen so that no marker can straddle two tokens, which makes       *)
(* Python's `marker in s` the membership of the marker among the tokens.   *)
(*                                                                         *)
(* The module holds four specifications, one per component:                *)
(*   SpecTrace   - run_with_trace, called any number of times in sequence  *)
(*   SpecExtract - the count filter of run_with_trace (lines 121-123)      *)
(*                 applied to arbitrary raw counts                         *)
(*   SpecMerge   - the merge loop of explain_file followed by the          *)
(*                 pre-flag pass of explain_with_llm                       *)
(*   SpecLLM     - explain_with_llm from the backend call to the parse     *)
(* Each specification holds the variables of the other components fixed.   *)
(***************************************************************************)
EXTENDS Integers, Sequences, FiniteSets, TLC

VARIABLES
    \* ---- run_with_trace ----
    builtins_input,   \* the object bound to builtins.input
    time_sleep,       \* the object bound to time.sleep
    input_at_start,   \* history: builtins.input before the first invocation
    sleep_at_start,   \* history: time.sleep before the first invocation
    tpc,              \* position inside run_with_trace
    path,             \* argument: path of the analysed file
    entry,            \* argument: entry name, or None
    stdin_data,       \* argument: text standing in for interactive input
    globs,            \* namespace returned by runpy.run_path
    routine,          \* what the routine bound to a callable entry does
    original_input,   \* local of run_with_trace
    original_sleep,   \* local of run_with_trace
    fake_stdin,       \* position of the io.StringIO over stdin_data
    reads,            \* values input() returned inside the entry call
    runfunc_calls,    \* number of tracer.runfunc calls of this invocation
    raw_counts,       \* tracer.results().counts, in insertion order
    pending,          \* how the try block was left
    outcome,          \* what the last invocation returned or raised
    invocations,      \* number of completed invocations
    \* ---- explain_file / pre-flag pass ----
    mpc,              \* position inside explain_file / the pre-flag pass
    src,              \* text of the analysed file
    facts,            \* FactMap: line number -> list of fact strings
    hits,             \* HitCountMap: line number -> count
    idx,              \* loop index (line number, then record number)
    explanations,     \* the record list, mutated in place by the pre-flag pass
    merged,           \* history: the record list as explain_file returned it
    \* ---- call_local_llm / explain_with_llm ----
    lpc,              \* position inside explain_with_llm / call_local_llm
    USE_OLLAMA,       \* availability flag probed at import
    attempt,          \* loop variable of call_local_llm
    history,          \* history: outcome of each backend invocation, in order
    proc_stdout,      \* text the backend wrote on the successful attempt
    raw,              \* value call_local_llm returned
    result            \* what explain_with_llm returned or raised

traceVars == <<builtins_input, time_sleep, input_at_start, sleep_at_start, tpc,
               path, entry, stdin_data, globs, routine, original_input,
               original_sleep, fake_stdin, reads, runfunc_calls, raw_counts,
               pending, outcome, invocations>>
mergeVars == <<mpc, src, facts, hits, idx, explanations, merged>>
llmVars == <<lpc, USE_OLLAMA, attempt, history, proc_stdout, raw, result>>
vars == <<traceVars, mergeVars, llmVars>>

\* Python's None where a text is expected, an object is expected, and a
\* result is expected.
None == "None"
NoText == <<None>>
NoObject == <<None, 0>>
NoResult == [kind |-> "none"]

(***************************************************************************)
(* Bounds of the model.                                                    *)
(***************************************************************************)
MaxInvocations == 2
MaxStdinLen == 3
MaxReads == 3
MaxRaw == 2
MaxLn == 2
MaxRawHits == 2
MaxSrcLen == 3
MaxHits == 1
MaxRawLen == 4

RECURSIVE SeqsUpTo(_, _)
SeqsUpTo(S, n) ==
    IF n = 0 THEN {<<>>}
    ELSE LET shorter == SeqsUpTo(S, n - 1)
         IN  shorter \cup {Append(s, x) : s \in {t \in shorter : Len(t) = n - 1}, x \in S}

(***************************************************************************)
(* run_with_trace                                                          *)
(***************************************************************************)

\* The objects builtins.input and time.sleep may be bound to when the
\* program starts calling run_with_trace.
InputObjects == {<<"builtin_input", 0>>, <<"patched_input", 0>>}
SleepObjects == {<<"builtin_sleep", 0>>, <<"patched_sleep", 0>>}

\* Each invocation defines fresh closures stub_input and fast_sleep.
StubInputObject(n) == <<"stub_input", n>>
FastSleepObject(n) == <<"fast_sleep", n>>

StdinChars == {"a", "b", "\n"}
StdinTexts == SeqsUpTo(StdinChars, MaxStdinLen)

\* Analysed paths and the file names the tracer can attribute a line to.
PathTokens == {"lib/", "x", "m.py"}
Paths == {<<"m.py">>, <<"lib/", "m.py">>}
FileNames == SeqsUpTo(PathTokens, 2) \ {<<>>}

\* Top-level bindings a loaded module can leave: each name is a function
\* (callable), plain data (not callable), or absent.
Names == {"f"}
Namespaces == [Names -> {"func", "data", "absent"}]
Unloaded == [n \in Names |-> "unloaded"]
Entries == {None, ""} \cup Names

\* A routine: how many times it calls input(), whether it returns or raises,
\* and the counts the tracer collects while it runs.
RawEntries == [fname : FileNames, ln : 1..MaxLn, hits : 1..MaxRawHits]
DistinctKeys(rc) ==
    \A i, j \in 1..Len(rc) :
        i # j => <<rc[i].fname, rc[i].ln>> # <<rc[j].fname, rc[j].ln>>
RawCounts == {rc \in SeqsUpTo(RawEntries, MaxRaw) : DistinctKeys(rc)}
Routines == [nreads : 0..MaxReads, ends : {"returns", "raises"}]

\* The public names of the standard contextlib module.
ContextlibAttrs ==
    {"AbstractContextManager", "AbstractAsyncContextManager", "AsyncExitStack",
     "ContextDecorator", "ExitStack", "aclosing", "asynccontextmanager",
     "chdir", "closing", "contextmanager", "nullcontext", "redirect_stderr",
     "redirect_stdout", "suppress"}

\* io.StringIO.readline from position pos (0-based count of characters
\* consumed): the characters up to and including the next newline.
RECURSIVE readline(_, _)
readline(text, pos) ==
    IF pos >= Len(text) THEN <<>>
    ELSE IF text[pos + 1] = "\n" THEN <<"\n">>
    ELSE <<text[pos + 1]>> \o readline(text, pos + 1)

\* str.rstrip("\n")
RECURSIVE rstrip_newline(_)
rstrip_newline(s) ==
    IF s # <<>> /\ s[Len(s)] = "\n" THEN rstrip_newline(SubSeq(s, 1, Len(s) - 1))
    ELSE s

\* stub_input: the value returned by a read at position pos.
stub_input(text, pos) ==
    LET line == readline(text, pos)
    IN  IF line # <<>> THEN rstrip_newline(line) ELSE <<>>

\* The values of n successive stub_input calls starting at position pos, and
\* the position they leave.
RECURSIVE ReadN(_, _, _)
ReadN(text, pos, n) ==
    IF n = 0 THEN <<>>
    ELSE <<stub_input(text, pos)>> \o ReadN(text, pos + Len(readline(text, pos)), n - 1)

RECURSIVE PosAfter(_, _, _)
PosAfter(text, pos, n) ==
    IF n = 0 THEN pos
    ELSE PosAfter(text, pos + Len(readline(text, pos)), n - 1)

\* str.endswith
endswith(s, suffix) ==
    /\ Len(suffix) <= Len(s)
    /\ SubSeq(s, Len(s) - Len(suffix) + 1, Len(s)) = suffix

\* callable(globs.get(entry))
callable(g, e) == e \in Names /\ g[e] = "func"

\* Line 122: the dict comprehension over results.counts.items(); a later
\* item with the same line number replaces an earlier one.
KeepsFile(fname, p) == endswith(fname, p)

ExtractCounts(rc, p) ==
    LET kept == {i \in 1..Len(rc) : KeepsFile(rc[i].fname, p)}
        lns == {rc[i].ln : i \in kept}
        last(ln) == CHOOSE i \in kept :
                        /\ rc[i].ln = ln
                        /\ \A j \in kept : rc[j].ln = ln => j <= i
    IN  [ln \in lns |-> rc[last(ln)].hits]

EmptyMap == [ln \in {} |-> 0]

TraceIdle ==
    /\ tpc = "idle"
    /\ path = <<>> /\ entry = None /\ stdin_data = <<>>
    /\ globs = Unloaded
    /\ routine = [nreads |-> 0, ends |-> "returns"]
    /\ original_input = NoObject /\ original_sleep = NoObject
    /\ fake_stdin = 0 /\ reads = <<>> /\ runfunc_calls = 0
    /\ raw_counts = <<>> /\ pending = NoResult /\ outcome = NoResult
    /\ invocations = 0

TraceInit ==
    /\ builtins_input \in InputObjects
    /\ time_sleep \in SleepObjects
    /\ input_at_start = builtins_input
    /\ sleep_at_start = time_sleep
    /\ TraceIdle

\* Lines 71-80: the call binds the arguments.
Call ==
    /\ tpc = "idle"
    /\ invocations < MaxInvocations
    /\ \E p \in Paths, e \in Entries, sd \in StdinTexts, r \in Routines :
        /\ path' = p /\ entry' = e /\ stdin_data' = sd /\ routine' = r
    /\ outcome' = NoResult
    /\ tpc' = "load"
    /\ UNCHANGED <<builtins_input, time_sleep, input_at_start, sleep_at_start,
                   globs, original_input, original_sleep, fake_stdin, reads,
                   runfunc_calls, raw_counts, pending, invocations>>

\* Lines 83-101: runpy.run_path returns the module's namespace; the stubs
\* and the tracer are built.  The top-level code of the analysed module is
\* taken not to rebind builtins.input or time.sleep itself.
Load ==
    /\ tpc = "load"
    /\ \E g \in Namespaces : globs' = g
    /\ fake_stdin' = 0
    /\ original_input' = builtins_input
    /\ original_sleep' = time_sleep
    /\ tpc' = "try"
    /\ UNCHANGED <<builtins_input, time_sleep, input_at_start, sleep_at_start,
                   path, entry, stdin_data, routine, reads, runfunc_calls,
                   raw_counts, pending, outcome, invocations>>

\* Line 83: runpy.run_path raises (no such file, or the module's top-level
\* code raises); nothing has been installed yet.
LoadFails ==
    /\ tpc = "load"
    /\ outcome' = [kind |-> "raise", exc |-> "LoadError"]
    /\ tpc' = "done"
    /\ UNCHANGED <<builtins_input, time_sleep, input_at_start, sleep_at_start,
                   path, entry, stdin_data, globs, routine, original_input,
                   original_sleep, fake_stdin, reads, runfunc_calls, raw_counts,
                   pending, invocations>>

\* Lines 103-104.
InstallStubs ==
    /\ tpc = "try"
    /\ builtins_input' = StubInputObject(invocations + 1)
    /\ time_sleep' = FastSleepObject(invocations + 1)
    /\ tpc' = "body"
    /\ UNCHANGED <<input_at_start, sleep_at_start, path, entry, stdin_data, globs,
                   routine, original_input, original_sleep, fake_stdin, reads,
                   runfunc_calls, raw_counts, pending, outcome, invocations>>

\* `if entry:` is false for None and for the empty string.
Truthy(e) == e # None /\ e # ""

\* Lines 113-115: entry unset.
EntryUnset ==
    /\ tpc = "body"
    /\ ~Truthy(entry)
    /\ pending' = [kind |-> "return", counts |-> EmptyMap, out |-> <<>>]
    /\ tpc' = "finally"
    /\ UNCHANGED <<builtins_input, time_sleep, input_at_start, sleep_at_start,
                   path, entry, stdin_data, globs, routine, original_input,
                   original_sleep, fake_stdin, reads, runfunc_calls, raw_counts,
                   outcome, invocations>>

\* Lines 107-110: entry not found or not callable.
\* (A test `func is None` in place of `not callable(func)`.)
NotCallableAbsentOnly(g, e) == g[e] = "absent"

NotCallable(g, e) == ~callable(g, e)

EntryNotCallable ==
    /\ tpc = "body"
    /\ Truthy(entry)
    /\ NotCallable(globs, entry)
    /\ pending' = [kind |-> "return", counts |-> EmptyMap, out |-> <<>>]
    /\ tpc' = "finally"
    /\ UNCHANGED <<builtins_input, time_sleep, input_at_start, sleep_at_start,
                   path, entry, stdin_data, globs, routine, original_input,
                   original_sleep, fake_stdin, reads, runfunc_calls, raw_counts,
                   outcome, invocations>>

\* Lines 111-112: the with statement and the traced call.  The context
\* expressions are evaluated left to right; contextlib.redirect_stdin is an
\* attribute lookup on the contextlib module, which raises AttributeError
\* when the module has no such name.  Only when all three managers are
\* entered does tracer.runfunc run the routine.
TracedCall ==
    /\ tpc = "body"
    /\ Truthy(entry)
    /\ ~NotCallable(globs, entry)
    /\ IF "redirect_stdin" \in ContextlibAttrs
       THEN /\ runfunc_calls' = runfunc_calls + 1
            /\ reads' = ReadN(stdin_data, fake_stdin, routine.nreads)
            /\ fake_stdin' = PosAfter(stdin_data, fake_stdin, routine.nreads)
            /\ \E rc \in RawCounts : raw_counts' = rc
            /\ pending' = IF routine.ends = "raises"
                          THEN [kind |-> "raise", exc |-> "EntryError"]
                          ELSE [kind |-> "fallthrough"]
       ELSE /\ pending' = [kind |-> "raise", exc |-> "AttributeError"]
            /\ UNCHANGED <<runfunc_calls, reads, fake_stdin, raw_counts>>
    /\ tpc' = "finally"
    /\ UNCHANGED <<builtins_input, time_sleep, input_at_start, sleep_at_start,
                   path, entry, stdin_data, globs, routine, original_input,
                   original_sleep, outcome, invocations>>

\* Lines 117-123: the finally block, then either the pending return or raise,
\* or (the try block fell through) the extraction of the counts.  The text
\* a routine prints is not modelled: the captured output is empty.
\* (A finally block that forgets line 119 would leave time.sleep as it is.)
RestoredSleepStale == time_sleep

RestoredInput == original_input
RestoredSleep == original_sleep

Finally ==
    /\ tpc = "finally"
    /\ builtins_input' = RestoredInput
    /\ time_sleep' = RestoredSleep
    /\ outcome' = IF pending.kind = "fallthrough"
                  THEN [kind |-> "return",
                        counts |-> ExtractCounts(raw_counts, path),
                        out |-> <<>>]
                  ELSE pending
    /\ tpc' = "done"
    /\ UNCHANGED <<input_at_start, sleep_at_start, path, entry, stdin_data, globs,
                   routine, original_input, original_sleep, fake_stdin, reads,
                   runfunc_calls, raw_counts, pending, invocations>>

\* The invocation is over: its arguments and locals are gone, the caller
\* holds what it returned or raised.
Return ==
    /\ tpc = "done"
    /\ path' = <<>> /\ entry' = None /\ stdin_data' = <<>>
    /\ globs' = Unloaded
    /\ routine' = [nreads |-> 0, ends |-> "returns"]
    /\ original_input' = NoObject /\ original_sleep' = NoObject
    /\ fake_stdin' = 0 /\ reads' = <<>> /\ runfunc_calls' = 0
    /\ raw_counts' = <<>> /\ pending' = NoResult
    /\ invocations' = invocations + 1
    /\ tpc' = "idle"
    /\ UNCHANGED <<builtins_input, time_sleep, input_at_start, sleep_at_start,
                   outcome>>


TraceUnused ==
    /\ UNCHANGED mergeVars
    /\ UNCHANGED llmVars

(***************************************************************************)
(* explain_file: the merge loop, and the pre-flag pass of explain_with_llm *)
(***************************************************************************)

\* "\f" is the form feed, which Python source may hold on a line of its own.
SrcChars == {"a", " ", "\f", "\n"}
SrcTexts == SeqsUpTo(SrcChars, MaxSrcLen)

\* Fact strings as ast_facts builds them: a category prefix, then source
\* text.  The source text of an assigned value or a callee can hold any
\* text, the markers the pre-flag pass searches for included.
FAssign == <<"assign: ", "y", " = ", "1">>
FCall == <<"call: ", "f", "(...)">>
FLiteral == <<"assign: ", "s", " = ", "'", "runtime: executed", "'">>
FNetwork == <<"call: ", "writes_to_network", "(...)">>
FExec == <<"call: ", "execute_code", "(...)">>
FactLists == {<<>>, <<FCall, FAssign>>, <<FLiteral>>, <<FNetwork, FExec>>}

Placeholder == <<"(no AST events; likely comment/blank or simple expression)">>

\* f"runtime: executed {hits[i]}x"
RuntimeAnnotation(n) == <<"runtime: executed", " ", ToString(n), "x">>

\* str.splitlines: a line ends at a line boundary, which is a newline and
\* also a form feed (and other separators that SrcChars does not hold); a
\* final boundary does not open another line.
LineBoundaries == {"\n", "\f"}

RECURSIVE UpToBoundary(_)
UpToBoundary(text) ==
    IF text = <<>> \/ text[1] \in LineBoundaries THEN <<>>
    ELSE <<text[1]>> \o UpToBoundary(Tail(text))

RECURSIVE splitlines(_)
splitlines(text) ==
    IF text = <<>> THEN <<>>
    ELSE LET first == UpToBoundary(text)
             rest == SubSeq(text, Len(first) + 2, Len(text))
         IN  <<first>> \o splitlines(rest)

\* str.rstrip() and str.strip() over the whitespace of SrcChars
Whitespace == {" ", "\f", "\n"}

RECURSIVE rstrip(_)
rstrip(s) ==
    IF s # <<>> /\ s[Len(s)] \in Whitespace THEN rstrip(SubSeq(s, 1, Len(s) - 1))
    ELSE s

RECURSIVE lstrip(_)
lstrip(s) ==
    IF s # <<>> /\ s[1] \in Whitespace THEN lstrip(Tail(s))
    ELSE s

strip(s) == lstrip(rstrip(s))

\* Line 138: `not text.strip()`
IsBlank(text) == strip(text) = <<>>

\* (A merge that puts the placeholder on every line without static facts,
\* before looking at the hit count.)
LineInfoPlaceholderFirst(fm, hm, i) ==
    LET static == IF i \in DOMAIN fm THEN fm[i] ELSE <<>>
    IN  IF static = <<>> THEN <<Placeholder>>
        ELSE IF i \in DOMAIN hm THEN Append(static, RuntimeAnnotation(hm[i]))
        ELSE static

\* Lines 141-148: the facts of the record of line i.
LineInfo(fm, hm, i) ==
    LET static == IF i \in DOMAIN fm THEN fm[i] ELSE <<>>
        both == IF i \in DOMAIN hm
                THEN Append(static, RuntimeAnnotation(hm[i]))
                ELSE static
    IN  IF both = <<>> THEN <<Placeholder>> ELSE both

\* Lines 150-154
Record(fm, hm, i, text) ==
    [line |-> i, code |-> rstrip(text), facts |-> LineInfo(fm, hm, i)]

\* `marker in f`
Contains(f, marker) == \E k \in 1..Len(f) : f[k] = marker

\* Line 217
NeverExecuted(fs) == ~\E k \in 1..Len(fs) : Contains(fs[k], "runtime: executed")
\* Line 219
RiskyIO(fs) ==
    \E k \in 1..Len(fs) :
        Contains(fs[k], "writes_to_network") \/ Contains(fs[k], "scrape_untrusted")
\* Line 221
DynamicCode(fs) == \E k \in 1..Len(fs) : Contains(fs[k], "execute_code")

\* Lines 216-222: the list ff
Flags(fs) ==
    (IF NeverExecuted(fs) THEN <<"never_executed_in_trace">> ELSE <<>>)
    \o (IF RiskyIO(fs) THEN <<"risky_io_or_network">> ELSE <<>>)
    \o (IF DynamicCode(fs) THEN <<"dynamic_code_execution">> ELSE <<>>)

\* ','.join(ff)
RECURSIVE join(_)
join(ff) ==
    IF ff = <<>> THEN <<>>
    ELSE IF Len(ff) = 1 THEN <<ff[1]>>
    ELSE <<ff[1], ",">> \o join(Tail(ff))

\* Lines 223-224
PreFlagged(rec) ==
    LET ff == Flags(rec.facts)
    IN  IF ff # <<>>
        THEN [rec EXCEPT !.facts = Append(@, <<"precheck_flags: ">> \o join(ff))]
        ELSE rec

Maps(D, V) == UNION {[K -> V] : K \in SUBSET D}

MergeIdle ==
    /\ mpc = "idle" /\ src = <<>> /\ facts = EmptyMap /\ hits = EmptyMap
    /\ idx = 0 /\ explanations = <<>> /\ merged = <<>>

\* Lines 126-135: the inputs of the loop.  The loop reads the maps only at
\* the line numbers of the source, so the maps are drawn over those.
MergeInit ==
    /\ mpc = "merge"
    /\ src \in SrcTexts
    /\ facts \in Maps(1..Len(splitlines(src)), FactLists)
    /\ hits \in Maps(1..Len(splitlines(src)), 1..MaxHits)
    /\ idx = 1
    /\ explanations = <<>>
    /\ merged = <<>>

\* Lines 137-154: one iteration of the loop.
MergeLine ==
    /\ mpc = "merge"
    /\ idx <= Len(splitlines(src))
    /\ LET text == splitlines(src)[idx]
       IN  explanations' = IF IsBlank(text) THEN explanations
                           ELSE Append(explanations, Record(facts, hits, idx, text))
    /\ idx' = idx + 1
    /\ UNCHANGED <<mpc, src, facts, hits, merged>>

\* Line 156, then the call of explain_with_llm on the records (line 262).
MergeReturn ==
    /\ mpc = "merge"
    /\ idx > Len(splitlines(src))
    /\ merged' = explanations
    /\ mpc' = "preflag"
    /\ idx' = 1
    /\ UNCHANGED <<src, facts, hits, explanations>>

\* Lines 215-224: one iteration of the pre-flag loop.
PreFlag ==
    /\ mpc = "preflag"
    /\ idx <= Len(explanations)
    /\ explanations' = [explanations EXCEPT ![idx] = PreFlagged(@)]
    /\ idx' = idx + 1
    /\ UNCHANGED <<mpc, src, facts, hits, merged>>

PreFlagDone ==
    /\ mpc = "preflag"
    /\ idx > Len(explanations)
    /\ mpc' = "flagged"
    /\ UNCHANGED <<src, facts, hits, idx, explanations, merged>>

MergeUnused ==
    /\ UNCHANGED traceVars
    /\ UNCHANGED llmVars

(***************************************************************************)
(* call_local_llm and the response handling of explain_with_llm            *)
(***************************************************************************)

\* Line 179
retries == 2

\* Backend output: "1" is a digit, "k:" a quoted key with its colon, "x"
\* any prose; the braces are themselves.
RawTokens == {"{", "}", "k:", "1", "x"}
RawTexts == SeqsUpTo(RawTokens, MaxRawLen)

\* str.find / str.rfind, 0-based, -1 when absent
find(s, c) ==
    IF \E i \in 1..Len(s) : s[i] = c
    THEN (CHOOSE i \in 1..Len(s) : s[i] = c /\ \A j \in 1..(i - 1) : s[j] # c) - 1
    ELSE -1

rfind(s, c) ==
    IF \E i \in 1..Len(s) : s[i] = c
    THEN (CHOOSE i \in 1..Len(s) : s[i] = c /\ \A j \in (i + 1)..Len(s) : s[j] # c) - 1
    ELSE -1

\* Line 233: raw[start:end+1] when both braces were found, else raw
Cleaned(r) ==
    LET start == find(r, "{")
        end == rfind(r, "}")
    IN  IF start # -1 /\ end # -1 THEN SubSeq(r, start + 1, end + 1) ELSE r

\* The texts json.loads accepts: a number, or an object that is empty or
\* holds one key with a value.
RECURSIVE IsJsonValue(_)
IsJsonValue(s) ==
    \/ s # <<>> /\ \A i \in 1..Len(s) : s[i] = "1"
    \/ /\ Len(s) >= 2
       /\ s[1] = "{" /\ s[Len(s)] = "}"
       /\ \/ Len(s) = 2
          \/ Len(s) >= 4 /\ s[2] = "k:" /\ IsJsonValue(SubSeq(s, 3, Len(s) - 1))

\* Line 234: json.loads returns the parsed value or raises
json_loads(s) ==
    IF IsJsonValue(s)
    THEN [kind |-> "return",
          data |-> [type |-> IF s[1] = "{" THEN "object" ELSE "number", text |-> s]]
    ELSE [kind |-> "raise", exc |-> "JSONDecodeError"]

\* (An except clause that also catches the RuntimeError of line 192.)
CaughtAnyFailure(exc) == exc \in {"TimeoutExpired", "RuntimeError"}

\* Line 194: the except clause catches subprocess.TimeoutExpired only
Caught(exc) == exc = "TimeoutExpired"

\* (The comparison of line 195 off by one.)
MoreAttemptsOffByOne(a) == a <= retries

\* Line 195
MoreAttempts(a) == a < retries

LLMIdle ==
    /\ lpc = "idle" /\ USE_OLLAMA = FALSE /\ attempt = 0 /\ history = <<>>
    /\ proc_stdout = NoText /\ raw = NoText /\ result = NoResult

\* Line 160 probes the backend once; explain_with_llm reaches line 229.
LLMInit ==
    /\ lpc = "call"
    /\ USE_OLLAMA \in BOOLEAN
    /\ attempt = 0
    /\ history = <<>>
    /\ proc_stdout = NoText
    /\ raw = NoText
    /\ result = NoResult

\* Lines 199-200
BackendUnavailable ==
    /\ lpc = "call"
    /\ ~USE_OLLAMA
    /\ result' = [kind |-> "raise", exc |-> "SystemExit", msg |-> "no runner"]
    /\ lpc' = "done"
    /\ UNCHANGED <<USE_OLLAMA, attempt, history, proc_stdout, raw>>

\* What follows an exception raised inside the try of attempt `attempt`:
\* propagate it, retry, give up, or (the loop ran out) return None.
AfterException(exc) ==
    IF ~Caught(exc)
    THEN /\ result' = [kind |-> "raise", exc |-> exc, msg |-> "backend failed"]
         /\ lpc' = "done"
         /\ UNCHANGED <<attempt, raw>>
    ELSE IF ~MoreAttempts(attempt)
    THEN /\ result' = [kind |-> "raise", exc |-> "SystemExit", msg |-> "timed out"]
         /\ lpc' = "done"
         /\ UNCHANGED <<attempt, raw>>
    ELSE IF attempt + 1 <= retries
    THEN /\ attempt' = attempt + 1
         /\ UNCHANGED <<lpc, raw, result>>
    ELSE /\ raw' = NoText
         /\ lpc' = "parse"
         /\ UNCHANGED <<attempt, result>>

\* Lines 183-189 and 194-198: the backend does not answer within the timeout.
AttemptTimesOut ==
    /\ lpc = "call"
    /\ USE_OLLAMA
    /\ attempt <= retries
    /\ history' = Append(history, "timeout")
    /\ AfterException("TimeoutExpired")
    /\ UNCHANGED <<USE_OLLAMA, proc_stdout>>

\* Lines 190-192: the backend exits with a non-zero code.
AttemptExitsNonZero ==
    /\ lpc = "call"
    /\ USE_OLLAMA
    /\ attempt <= retries
    /\ history' = Append(history, "nonzero")
    /\ AfterException("RuntimeError")
    /\ UNCHANGED <<USE_OLLAMA, proc_stdout>>

\* Line 193: the backend exits with code 0; its output is returned.
AttemptSucceeds ==
    /\ lpc = "call"
    /\ USE_OLLAMA
    /\ attempt <= retries
    /\ history' = Append(history, "ok")
    /\ \E out \in RawTexts :
        /\ proc_stdout' = out
        /\ raw' = out
    /\ lpc' = "parse"
    /\ UNCHANGED <<USE_OLLAMA, attempt, result>>

\* Lines 231-236
Parse ==
    /\ lpc = "parse"
    /\ result' = IF raw = NoText
                 THEN [kind |-> "raise", exc |-> "AttributeError", msg |-> "None.find"]
                 ELSE json_loads(Cleaned(raw))
    /\ lpc' = "done"
    /\ UNCHANGED <<USE_OLLAMA, attempt, history, proc_stdout, raw>>

LLMUnused ==
    /\ UNCHANGED traceVars
    /\ UNCHANGED mergeVars

(***************************************************************************)
(* The count filter of run_with_trace on its own                           *)
(***************************************************************************)

ExtractInit ==
    /\ builtins_input \in InputObjects
    /\ time_sleep \in SleepObjects
    /\ input_at_start = builtins_input
    /\ sleep_at_start = time_sleep
    /\ tpc = "extract"
    /\ path \in Paths
    /\ raw_counts \in RawCounts
    /\ entry = "f" /\ stdin_data = <<>>
    /\ globs = [n \in Names |-> "func"]
    /\ routine = [nreads |-> 0, ends |-> "returns"]
    /\ original_input = builtins_input /\ original_sleep = time_sleep
    /\ fake_stdin = 0 /\ reads = <<>> /\ runfunc_calls = 1
    /\ pending = [kind |-> "fallthrough"] /\ outcome = NoResult
    /\ invocations = 0

\* Lines 121-123
Extract ==
    /\ tpc = "extract"
    /\ outcome' = [kind |-> "return",
                   counts |-> ExtractCounts(raw_counts, path),
                   out |-> <<>>]
    /\ tpc' = "done"
    /\ UNCHANGED <<builtins_input, time_sleep, input_at_start, sleep_at_start,
                   path, entry, stdin_data, globs, routine, original_input,
                   original_sleep, fake_stdin, reads, runfunc_calls, raw_counts,
                   pending, invocations>>

(***************************************************************************)
(* Specifications                                                          *)
(***************************************************************************)

TraceStep ==
    \/ Call /\ TraceUnused
    \/ Load /\ TraceUnused
    \/ LoadFails /\ TraceUnused
    \/ InstallStubs /\ TraceUnused
    \/ EntryUnset /\ TraceUnused
    \/ EntryNotCallable /\ TraceUnused
    \/ TracedCall /\ TraceUnused
    \/ Finally /\ TraceUnused
    \/ Return /\ TraceUnused

InitTrace == TraceInit /\ MergeIdle /\ LLMIdle

SpecTrace == InitTrace /\ [][TraceStep]_vars

ExtractStep == Extract /\ TraceUnused

InitExtract == ExtractInit /\ MergeIdle /\ LLMIdle

SpecExtract == InitExtract /\ [][ExtractStep]_vars

MergeStep ==
    \/ MergeLine /\ MergeUnused
    \/ MergeReturn /\ MergeUnused
    \/ PreFlag /\ MergeUnused
    \/ PreFlagDone /\ MergeUnused

ProcessStart ==
    /\ builtins_input = <<"builtin_input", 0>> /\ time_sleep = <<"builtin_sleep", 0>>
    /\ input_at_start = builtins_input /\ sleep_at_start = time_sleep
    /\ TraceIdle

InitMerge == ProcessStart /\ MergeInit /\ LLMIdle

SpecMerge == InitMerge /\ [][MergeStep]_vars

LLMStep ==
    \/ BackendUnavailable /\ LLMUnused
    \/ AttemptTimesOut /\ LLMUnused
    \/ AttemptExitsNonZero /\ LLMUnused
    \/ AttemptSucceeds /\ LLMUnused
    \/ Parse /\ LLMUnused

InitLLM == ProcessStart /\ MergeIdle /\ LLMInit

SpecLLM == InitLLM /\ [][LLMStep]_vars

(***************************************************************************)
(* Properties                                                              *)
(***************************************************************************)

\* C1: whenever no invocation of run_with_trace is in progress, after any
\* number of invocations and whatever way each one ended, builtins.input and
\* time.sleep are the objects they were before the first invocation.
C1_StubsRestored ==
    tpc \in {"idle", "done"} =>
        /\ builtins_input = input_at_start
        /\ time_sleep = sleep_at_start

\* A second invocation has installed its stubs and left through the
\* exception path.
C1_Witness ==
    /\ tpc = "done"
    /\ invocations = 1
    /\ original_input # NoObject
    /\ outcome.kind = "raise"
    /\ builtins_input = input_at_start

\* C4: an invocation whose entry name is set but is absent from the loaded
\* namespace, or bound to a value that is not callable, returns an empty
\* HitCountMap and empty output; it does not raise, the routine is never
\* run and the tracer collects nothing.
C4_EntryNotFound ==
    (globs # Unloaded /\ Truthy(entry) /\ globs[entry] # "func") =>
        /\ runfunc_calls = 0
        /\ raw_counts = <<>>
        /\ pending # NoResult => pending = [kind |-> "return", counts |-> EmptyMap, out |-> <<>>]
        /\ tpc = "done" => outcome = [kind |-> "return", counts |-> EmptyMap, out |-> <<>>]

\* An invocation whose entry names plain data has returned.
C4_Witness ==
    /\ tpc = "done"
    /\ globs # Unloaded
    /\ Truthy(entry)
    /\ globs[entry] = "data"
    /\ outcome = [kind |-> "return", counts |-> EmptyMap, out |-> <<>>]

\* The physical lines of a text: the pieces that end at each newline, and
\* the piece after the last newline when it is not empty.
RECURSIVE PhysicalLines(_)
PhysicalLines(text) ==
    IF text = <<>> THEN <<>>
    ELSE LET n == CHOOSE k \in 1..(Len(text) + 1) :
                      /\ k = Len(text) + 1 \/ text[k] = "\n"
                      /\ \A j \in 1..(k - 1) : text[j] # "\n"
         IN  <<SubSeq(text, 1, n - 1)>> \o PhysicalLines(SubSeq(text, n + 1, Len(text)))

\* The k-th physical line of a text, empty past the last one.
KthLine(text, k) ==
    IF k <= Len(PhysicalLines(text)) THEN PhysicalLines(text)[k] ELSE <<>>

\* C8: the k-th read of interactive input inside the traced entry call
\* returns the k-th line of the stdin text without its newline, and the
\* empty string once the lines are used up: an invocation whose entry
\* routine reads n times ends with exactly those n values read.
C8_ReadsInOrder ==
    (tpc = "done" /\ globs # Unloaded /\ Truthy(entry) /\ globs[entry] = "func") =>
        reads = [k \in 1..routine.nreads |-> KthLine(stdin_data, k)]

NonBlankLines(text) ==
    {i \in 1..Len(PhysicalLines(text)) :
        \E k \in 1..Len(PhysicalLines(text)[i]) :
            PhysicalLines(text)[i][k] \notin {" ", "\f"}}

\* C3: when the merge loop has finished, the line numbers of its records
\* are exactly the physical lines of the source that hold a character other
\* than whitespace, each once, in strictly ascending order.
C3_Coverage ==
    mpc \in {"preflag", "flagged"} =>
        /\ {merged[j].line : j \in 1..Len(merged)} = NonBlankLines(src)
        /\ \A j, k \in 1..Len(merged) : j < k => merged[j].line < merged[k].line

\* What the facts of one record must be, given the FactMap and HitCountMap.
C9_FactsOf(rec) ==
    LET static == IF rec.line \in DOMAIN facts THEN facts[rec.line] ELSE <<>>
        hit == rec.line \in DOMAIN hits
    IN  /\ rec.facts # <<>>
        /\ (static = <<>> /\ ~hit) <=> rec.facts = <<Placeholder>>
        /\ (static # <<>> \/ hit) =>
              /\ SubSeq(rec.facts, 1, Len(static)) = static
              /\ hit => rec.facts = Append(static, RuntimeAnnotation(hits[rec.line]))
              /\ ~hit => rec.facts = static

\* C9: the facts of every record are not empty: they are the FactMap
\* entries of the line in order, then the runtime annotation when the line
\* has a hit count; they are the one-element placeholder list exactly when
\* the line has no FactMap fact and no hit count.
C9_NonEmptyFacts ==
    LET recs == IF mpc = "merge" THEN explanations ELSE merged
    IN  \A j \in 1..Len(recs) : C9_FactsOf(recs[j])

\* A record of a line with an empty FactMap entry and a hit count, and a
\* record of a line with neither.
C9_Witness ==
    /\ mpc = "preflag"
    /\ \E j \in 1..Len(merged) :
          /\ merged[j].line \in DOMAIN facts
          /\ facts[merged[j].line] = <<>>
          /\ merged[j].line \in DOMAIN hits
          /\ Len(merged[j].facts) = 1
    /\ \E j \in 1..Len(merged) :
          /\ merged[j].line \notin DOMAIN facts
          /\ merged[j].facts = <<Placeholder>>

\* The string the pre-flag pass appended to a record, empty when none.
C10_Appended(old, new) ==
    IF Len(new.facts) > Len(old.facts) THEN new.facts[Len(new.facts)] ELSE <<>>

\* C10: after the pre-flag pass every record keeps its line, its code and
\* its facts, with at most one string appended; the appended string exists
\* only when a flag was raised, and it names never_executed_in_trace
\* exactly when the line of the record has no hit count.
C10_PreFlag ==
    mpc = "flagged" =>
        \A j \in 1..Len(merged) :
            LET old == merged[j]
                new == explanations[j]
                added == C10_Appended(old, new)
            IN  /\ new.line = old.line
                /\ new.code = old.code
                /\ Len(new.facts) \in {Len(old.facts), Len(old.facts) + 1}
                /\ SubSeq(new.facts, 1, Len(old.facts)) = old.facts
                /\ added # <<>> => added[1] = "precheck_flags: " /\ Len(added) > 1
                /\ Contains(added, "never_executed_in_trace")
                      <=> old.line \notin DOMAIN hits

\* C2: with retries = 2 the backend is invoked at most three times; after
\* two timeouts a third attempt is made; a success on it is returned
\* unchanged; a third timeout ends the call with SystemExit.
C2_RetryThenSuccess ==
    /\ Len(history) <= 3
    /\ history = <<"timeout", "timeout">> => lpc = "call" /\ attempt = 2
    /\ history = <<"timeout", "timeout", "ok">> =>
          /\ lpc \in {"parse", "done"}
          /\ raw = proc_stdout
          /\ raw # NoText
    /\ history = <<"timeout", "timeout", "timeout">> =>
          /\ lpc = "done"
          /\ result.kind = "raise"
          /\ result.exc = "SystemExit"

\* Two timeouts, then a response that call_local_llm has returned.
C2_Witness ==
    /\ history = <<"timeout", "timeout", "ok">>
    /\ lpc = "parse"
    /\ raw = <<"{", "k:", "1", "}">>

\* C7: every backend invocation but the last ended in a timeout; a
\* non-zero exit ends the call at that attempt with RuntimeError; with the
\* backend unavailable the call ends with SystemExit and the backend is
\* never invoked.
C7_RetryOnTimeoutOnly ==
    /\ \A i \in 1..(Len(history) - 1) : history[i] = "timeout"
    /\ (history # <<>> /\ history[Len(history)] = "nonzero") =>
          /\ lpc = "done"
          /\ result.kind = "raise"
          /\ result.exc = "RuntimeError"
    /\ ~USE_OLLAMA =>
          /\ history = <<>>
          /\ lpc = "done" => result.kind = "raise" /\ result.exc = "SystemExit"

\* A timeout, then a non-zero exit that ended the call.
C7_Witness ==
    /\ history = <<"timeout", "nonzero">>
    /\ lpc = "done"
    /\ result.exc = "RuntimeError"

\* A response without a JSON object between its first "{" and last "}".
NoParseableObject(r) ==
    \/ \A i \in 1..Len(r) : r[i] \notin {"{", "}"}
    \/ find(r, "{") = -1
    \/ rfind(r, "}") = -1
    \/ ~IsJsonValue(SubSeq(r, find(r, "{") + 1, rfind(r, "}") + 1))

\* C6: a backend response that holds no parseable JSON object - no braces
\* at all, or text between its first "{" and last "}" that is not a JSON
\* object - makes explain_with_llm raise: no value is returned for it, and
\* the backend is not invoked after the attempt that produced it.
C6_MalformedIsFatal ==
    (lpc = "done" /\ raw # NoText /\ NoParseableObject(raw)) =>
        /\ result.kind = "raise"
        /\ history[Len(history)] = "ok"
====
